---- MODULE Spec2Model ----
(***************************************************************************)
(* LA Stock Watch: the weekly-change build (build.py) and the Top-25 build *)
(* (build_top25.py).                                                       *)
(*                                                                         *)
(* Representation.  A ticker is a natural number; a curated company list   *)
(* is the sequence <<1, ..., n>>; symbol 0 is a symbol no company list     *)
(* holds.  Prices are whole dollars, market caps are in units of           *)
(* CAP_UNIT dollars (TLC integers are 32 bit), percentages rounded to two  *)
(* decimals are integers counting hundredths of a percent, percentages     *)
(* rounded to one decimal count tenths.  Arithmetic is exact (rationals),  *)
(* where the scripts use binary floating point.  Python's None is the      *)
(* value None, distinct from every number the model uses.  The dicts that  *)
(* build_rankings and build_enriched_data create are objects on a heap:    *)
(* the lists hold references (heap addresses), so that two lists holding   *)
(* the same dict see each other's writes, as in Python.                    *)
(***************************************************************************)
EXTENDS Integers, Sequences, FiniteSets, TLC

\* ------------------------------------------------------------------ bounds
\* The longest curated company list / quote list of a run or call.
MaxStocks == 26
\* How many entries at the end of a data-source answer may be unusual
\* (failed fetch, missing or zero field, out-of-band value).
MaxDeviant == 1
\* How many tickers at the end of the list an outage of the data source takes.
MaxOutage == 6
\* How many consecutive runs of the weekly build are followed.
MaxRuns == 3

\* ------------------------------------------------------- program constants
None == -1
TOP_N == 25
PE_N == 3
WEEKS_PER_YEAR == 52
MIN_QUOTES == 10
MIN_QUOTES_TOP25 == 20
EXPECTED_TICKERS == 25
CAP_UNIT == 100000000
MIN_MARKET_CAP == 10
MAX_MARKET_CAP == 5000
MAX_WEEKLY_CHANGE == 60
ANCHOR_COMPANIES == 1..15

\* ----------------------------------------------------------------- helpers
\* Python truthiness of a number-or-None.
Truthy(x) == x # None /\ x # 0

\* Python's `x or 0`.
OrZero(x) == IF Truthy(x) THEN x ELSE 0

Abs(x) == IF x < 0 THEN 0 - x ELSE x

Min2(a, b) == IF a < b THEN a ELSE b

\* The integer nearest to num/den (den > 0), ties to the even integer: what
\* round() does with the exact quotient.
RoundHalfEven(num, den) ==
    LET q == num \div den
        r == num % den
    IN  IF 2 * r < den THEN q
        ELSE IF 2 * r > den THEN q + 1
        ELSE IF q % 2 = 0 THEN q ELSE q + 1

\* round(num / den * 100, 2), in hundredths of a percent.
PctRound2(num, den) == RoundHalfEven(num * 10000, den)

\* round(num / den * 100, 1), in tenths of a percent.
PctRound1(num, den) == RoundHalfEven(num * 1000, den)

Take(s, n) == SubSeq(s, 1, Min2(n, Len(s)))

LastN(s, n) == SubSeq(s, Len(s) - Min2(n, Len(s)) + 1, Len(s))

Range(s) == {s[i] : i \in 1..Len(s)}

\* list.sort / sorted: a stable sort of a list of references by an integer
\* key.  Descending (reverse=True) keeps equal keys in their original order
\* too.  Insertion from the left: x goes behind every element that does not
\* have to follow it.
RECURSIVE InsertByKey(_, _, _, _)
InsertByKey(x, s, key, reverse) ==
    IF s = <<>> THEN <<x>>
    ELSE IF (IF reverse THEN key[Head(s)] >= key[x] ELSE key[Head(s)] <= key[x])
         THEN <<Head(s)>> \o InsertByKey(x, Tail(s), key, reverse)
         ELSE <<x>> \o s

RECURSIVE SortInto(_, _, _, _)
SortInto(done, todo, key, reverse) ==
    IF todo = <<>> THEN done
    ELSE SortInto(InsertByKey(Head(todo), done, key, reverse), Tail(todo), key, reverse)

StableSort(s, key, reverse) == SortInto(<<>>, s, key, reverse)


\* ------------------------------------------------- the data source's answers
\* What the quote source holds for one ticker: either the fetch raises, or it
\* gives the fields below (None: the field is missing).  `listed` is read only
\* when a quote list is handed to a function directly: FALSE makes the
\* quote's symbol one that no company list holds.
GoodRow(t, bump) ==
    LET c == t % 4
    IN  [raises |-> FALSE, listed |-> TRUE,
         price |-> (CASE c = 0 -> 100 [] c = 1 -> 110 [] c = 2 -> 90 [] OTHER -> 120) + bump,
         week_ago_price |-> (CASE c = 0 -> 100 [] c = 1 -> 100 [] c = 2 -> 100 [] OTHER -> 96),
         yearLow |-> (CASE c = 0 -> 50 [] c = 1 -> 100 [] c = 2 -> 60 [] OTHER -> 80),
         marketCap |-> (CASE c = 0 -> 2000 [] c = 1 -> 500 [] c = 2 -> 100 [] OTHER -> 30),
         pe |-> (CASE c = 0 -> 15 [] c = 1 -> 30 [] c = 2 -> 8 [] OTHER -> 22) + (t \div 4)]

DeviantKinds ==
    {"raise", "price0", "priceNone", "peNone", "pe0", "peNeg", "capNone", "cap0",
     "capHigh", "capLow", "lowNone", "low0", "wapNone", "wap0", "mover", "unlisted"}

Deviate(row, kind) ==
    CASE kind = "raise" -> [row EXCEPT !.raises = TRUE]
      [] kind = "price0" -> [row EXCEPT !.price = 0]
      [] kind = "priceNone" -> [row EXCEPT !.price = None]
      [] kind = "peNone" -> [row EXCEPT !.pe = None]
      [] kind = "pe0" -> [row EXCEPT !.pe = 0]
      [] kind = "peNeg" -> [row EXCEPT !.pe = 0 - 5]
      [] kind = "capNone" -> [row EXCEPT !.marketCap = None]
      [] kind = "cap0" -> [row EXCEPT !.marketCap = 0]
      [] kind = "capHigh" -> [row EXCEPT !.marketCap = 6000]
      [] kind = "capLow" -> [row EXCEPT !.marketCap = 5]
      [] kind = "lowNone" -> [row EXCEPT !.yearLow = None]
      [] kind = "low0" -> [row EXCEPT !.yearLow = 0]
      [] kind = "wapNone" -> [row EXCEPT !.week_ago_price = None]
      [] kind = "wap0" -> [row EXCEPT !.week_ago_price = 0]
      [] kind = "mover" -> [row EXCEPT !.price = 200, !.week_ago_price = 100]
      [] OTHER -> [row EXCEPT !.listed = FALSE]

\* The unusual answers followed in whole runs of a script: those that change
\* what the run fetches, validates or stores.
RunDeviantKinds ==
    {"raise", "price0", "peNone", "cap0", "capHigh", "low0", "wapNone", "mover"}

\* The answers for tickers 1..n: the usual rows, the last k <= MaxDeviant of
\* them replaced by unusual ones of the given kinds.
Answers(n, bump, kinds) ==
    UNION { { [i \in 1..n |-> IF i <= n - k THEN GoodRow(i, bump)
                              ELSE Deviate(GoodRow(i, bump), d[i - (n - k)])]
              : d \in [1..k -> kinds] }
            : k \in 0..Min2(MaxDeviant, n) }

\* The outages followed: none, and the two around each script's minimum of
\* quotes (15 - 5 = 10 and 25 - 5 = 20 quotes are enough, one less is not).
Outages == {0, MaxOutage - 1, MaxOutage}

\* The answers of one run for tickers 1..n: as above, and the fetch of the
\* last o tickers raises.
RunAnswers(n, bump) ==
    UNION { { [i \in 1..n |-> IF i <= n - o THEN rows[i]
                              ELSE Deviate(GoodRow(i, bump), "raise")]
              : rows \in Answers(n - o, bump, RunDeviantKinds) }
            : o \in {x \in Outages : x <= n} }

\* Previous-price mappings handed to build_rankings directly: none, one for
\* every ticker, and one with absent tickers and non-positive prices.
PreviousPriceChoices ==
    { <<>>,
      [t \in 1..MaxStocks |-> 80 + 10 * (t % 3)],
      [t \in {u \in 1..MaxStocks : u % 3 # 0} |-> IF t % 3 = 1 THEN 0 ELSE 100] }

\* ------------------------------------------------------------------ build.py
NoFile == [exists |-> FALSE, saved_at |-> 0, prices |-> <<>>]

\* load_price_history: the "prices" member of the file, {} without a file.
load_price_history(file) == IF file.exists THEN file.prices ELSE <<>>

\* save_price_history: the file's new content.
save_price_history(prices, build_date) ==
    [exists |-> TRUE, saved_at |-> build_date, prices |-> prices]

Quote(ticker, row) ==
    [symbol |-> ticker, price |-> row.price, week_ago_price |-> row.week_ago_price,
     yearLow |-> row.yearLow, marketCap |-> row.marketCap, pe |-> row.pe]

\* Whether the loop body of fetch_quotes appends a quote for this answer.
QuoteKept(row) == ~row.raises /\ Truthy(row.price) /\ row.price > 0

\* fetch_quotes of build.py: the quotes, in ticker order (the failed tickers
\* are only printed).
fetch_quotes(tickers, rows) ==
    LET idx == SelectSeq([i \in 1..Len(tickers) |-> i], LAMBDA i : QuoteKept(rows[i]))
    IN  [j \in 1..Len(idx) |-> Quote(tickers[idx[j]], rows[idx[j]])]

\* validate_anchor_companies: the anchors without a quote.
validate_anchor_companies(qs) ==
    {t \in ANCHOR_COMPANIES : \A i \in 1..Len(qs) : qs[i].symbol # t}

\* A first-run approximation that forgets to divide by the weeks of a year.
ChangePctPerYear(q, prev) ==
    LET current_price == OrZero(q.price)
    IN  IF q.symbol \in DOMAIN prev /\ prev[q.symbol] > 0
        THEN PctRound2(current_price - prev[q.symbol], prev[q.symbol])
        ELSE IF Truthy(q.yearLow) /\ q.yearLow > 0
             THEN PctRound2(current_price - q.yearLow, q.yearLow)
             ELSE 0

\* The change_pct build_rankings stores for a quote, in hundredths of a percent.
ChangePct(q, prev) ==
    LET current_price == OrZero(q.price)
    IN  IF q.symbol \in DOMAIN prev /\ prev[q.symbol] > 0
        THEN PctRound2(current_price - prev[q.symbol], prev[q.symbol])
        ELSE IF Truthy(q.yearLow) /\ q.yearLow > 0
             THEN PctRound2(current_price - q.yearLow, q.yearLow * WEEKS_PER_YEAR)
             ELSE 0

\* A rank loop that enumerates from 0.
AssignRanksFromZero(h, lst) ==
    [a \in DOMAIN h |->
        IF \E i \in 1..Len(lst) : lst[i] = a
        THEN [h[a] EXCEPT !.rank = (CHOOSE i \in 1..Len(lst) : lst[i] = a) - 1]
        ELSE h[a]]

\* for i, g in enumerate(lst, 1): g["rank"] = i
AssignRanks(h, lst) ==
    [a \in DOMAIN h |->
        IF \E i \in 1..Len(lst) : lst[i] = a
        THEN [h[a] EXCEPT !.rank = CHOOSE i \in 1..Len(lst) : lst[i] = a]
        ELSE h[a]]

ChangeKey(h) == [a \in DOMAIN h |-> h[a].change_pct]

\* gainers of build_rankings: the list, sorted in place, and its first 25.
SortedByChange(h) == StableSort([a \in 1..Len(h) |-> a], ChangeKey(h), TRUE)

\* Losers taken as the tail of the descending list, best of them first.
LosersAsTail(h, sortedEnriched) == LastN(sortedEnriched, TOP_N)

\* losers of build_rankings.
LosersOf(h, sortedEnriched) == Take(StableSort(sortedEnriched, ChangeKey(h), FALSE), TOP_N)

\* A merge loop that builds a record for every quote, curated or not.
InCompanyMapOrNot(comps, qs) == qs

\* The quotes the loop of build_rankings does not skip: those whose symbol is
\* a key of company_map.
InCompanyMap(comps, qs) == SelectSeq(qs, LAMBDA q : q.symbol \in Range(comps))

\* build_rankings: the dicts created (heap, by address), the three lists of
\* references and the ticker -> price dict.
build_rankings(comps, qs, prev) ==
    LET kept == InCompanyMap(comps, qs)
        heap0 == [a \in 1..Len(kept) |->
                    [rank |-> 0, ticker |-> kept[a].symbol,
                     price |-> OrZero(kept[a].price),
                     change_pct |-> ChangePct(kept[a], prev),
                     year_low |-> kept[a].yearLow,
                     market_cap |-> kept[a].marketCap,
                     pe |-> kept[a].pe,
                     year_change |-> None]]
        sorted == SortedByChange(heap0)
        top == Take(sorted, TOP_N)
        heap1 == AssignRanks(heap0, top)
        bottom == LosersOf(heap1, sorted)
        heap2 == AssignRanks(heap1, bottom)
        last(t) == CHOOSE a \in 1..Len(kept) :
                      /\ kept[a].symbol = t
                      /\ \A b \in (a + 1)..Len(kept) : kept[b].symbol # t
    IN  [gainers |-> top, losers |-> bottom, enriched |-> sorted, heap |-> heap2,
         current_prices |-> [t \in {kept[a].symbol : a \in 1..Len(kept)} |->
                                OrZero(kept[last(t)].price)]]

\* A P/E filter that drops None and 0 only.
PeQualifiesNonZero(stock) == Truthy(stock.pe)

PeQualifies(stock) == Truthy(stock.pe) /\ stock.pe > 0

PeKey(h) == [a \in DOMAIN h |-> h[a].pe]

\* with_pe of compute_pe_extremes (both scripts): filtered, sorted by P/E
\* descending.
WithPe(lst, h) == StableSort(SelectSeq(lst, LAMBDA a : PeQualifies(h[a])), PeKey(h), TRUE)

\* compute_pe_extremes of build.py.
compute_pe_extremes(lst, h) ==
    LET with_pe == WithPe(lst, h)
    IN  [highest |-> Take(with_pe, PE_N), lowest |-> LastN(with_pe, PE_N)]

\* compute_52_week_change, in tenths of a percent.
compute_52_week_change(stock) ==
    IF Truthy(stock.year_low) /\ stock.year_low > 0
    THEN PctRound1(stock.price - stock.year_low, stock.year_low)
    ELSE 0

\* for stock in gainers + losers: stock["year_change"] = ...
AddYearChange(h, lst) ==
    [a \in DOMAIN h |->
        IF a \in Range(lst) THEN [h[a] EXCEPT !.year_change = compute_52_week_change(h[a])]
        ELSE h[a]]

\* ------------------------------------------------------------ build_top25.py
\* fetch_quotes of build_top25.py: the quotes, and the tickers whose fetch
\* raised (a quote dropped for its price is in neither).
fetch_quotes_top25(tickers, rows) ==
    [quotes |-> fetch_quotes(tickers, rows),
     failed |-> LET idx == SelectSeq([i \in 1..Len(tickers) |-> i], LAMBDA i : rows[i].raises)
                IN  [j \in 1..Len(idx) |-> tickers[idx[j]]]]

CapKey(h) == [a \in DOMAIN h |-> OrZero(h[a].market_cap)]

\* build_enriched_data: the dicts created (heap, by address) and the list of
\* references, sorted by market cap and ranked.
build_enriched_data(comps, qs) ==
    LET quoted == SelectSeq(comps, LAMBDA t : \E i \in 1..Len(qs) : qs[i].symbol = t)
        q(t) == qs[CHOOSE i \in 1..Len(qs) :
                      /\ qs[i].symbol = t
                      /\ \A j \in (i + 1)..Len(qs) : qs[j].symbol # t]
        heap0 == [a \in 1..Len(quoted) |->
                    LET qa == q(quoted[a])
                        current_price == OrZero(qa.price)
                    IN  [rank |-> 0, ticker |-> quoted[a],
                         price |-> current_price,
                         change_pct |->
                            IF Truthy(qa.week_ago_price) /\ qa.week_ago_price > 0
                            THEN PctRound2(current_price - qa.week_ago_price,
                                           qa.week_ago_price)
                            ELSE 0,
                         year_low |-> qa.yearLow,
                         market_cap |-> qa.marketCap,
                         pe |-> qa.pe,
                         year_change |-> None]]
        sorted == StableSort([a \in 1..Len(quoted) |-> a], CapKey(heap0), TRUE)
    IN  [enriched |-> sorted, heap |-> AssignRanks(heap0, sorted)]

\* A spotlight search that reads both stocks off the head of the sorted list.
find_spotlight_stocks_head(lst, h) ==
    LET sorted_by_change == StableSort(lst, ChangeKey(h), TRUE)
    IN  [gainer |-> IF sorted_by_change # <<>> THEN sorted_by_change[1] ELSE 0,
         loser |-> IF sorted_by_change # <<>> THEN sorted_by_change[1] ELSE 0]

\* find_spotlight_stocks: references, 0 for None.
find_spotlight_stocks(lst, h) ==
    LET sorted_by_change == StableSort(lst, ChangeKey(h), TRUE)
    IN  [gainer |-> IF sorted_by_change # <<>> THEN sorted_by_change[1] ELSE 0,
         loser |-> IF sorted_by_change # <<>>
                   THEN sorted_by_change[Len(sorted_by_change)] ELSE 0]

\* compute_pe_extremes of build_top25.py: references, 0 for None.
compute_pe_extremes_top25(lst, h) ==
    LET with_pe == WithPe(lst, h)
    IN  [highest |-> IF with_pe # <<>> THEN with_pe[1] ELSE 0,
         lowest |-> IF with_pe # <<>> THEN with_pe[Len(with_pe)] ELSE 0]

SetMin(S) == CHOOSE x \in S : \A y \in S : x <= y

SetMax(S) == CHOOSE x \in S : \A y \in S : x >= y

\* One line of the validation log: the check it belongs to, the verdict it
\* prints, and the numbers and tickers it names.
LogLine(check, status, lo, hi, tickers) ==
    [check |-> check, status |-> status, lo |-> lo, hi |-> hi, tickers |-> tickers]

\* A completeness check that accepts more than 25 entries too.
CompletenessAtLeast(fetched) == fetched >= EXPECTED_TICKERS

\* A completeness check against the minimum of quotes instead of the 25.
CompletenessAtMinimum(fetched) == fetched >= MIN_QUOTES_TOP25

\* Check 1 of validate_data.
CompletenessOk(fetched) == fetched = EXPECTED_TICKERS

CompletenessLines(fetched, failed) ==
    IF CompletenessOk(fetched)
    THEN <<LogLine("tickers", "OK", fetched, EXPECTED_TICKERS, <<>>)>>
    ELSE <<LogLine("tickers", "FAILED", fetched, EXPECTED_TICKERS, <<>>)>>
         \o (IF failed # <<>> THEN <<LogLine("missing", "", 0, 0, failed)>> ELSE <<>>)

\* Check 2 of validate_data.
PricesOk(stocks) == \A i \in 1..Len(stocks) : stocks[i].price > 0

PriceLines(stocks) ==
    IF PricesOk(stocks)
    THEN <<LogLine("price", "OK", SetMin({stocks[i].price : i \in 1..Len(stocks)}),
                   SetMax({stocks[i].price : i \in 1..Len(stocks)}), <<>>)>>
    ELSE <<LogLine("price", "FAILED", 0, 0, <<>>)>>

\* Check 3 of validate_data.
CapLines(stocks) ==
    LET caps == {stocks[i].market_cap : i \in {j \in 1..Len(stocks) : Truthy(stocks[j].market_cap)}}
    IN  IF caps # {}
        THEN IF SetMin(caps) >= MIN_MARKET_CAP /\ SetMax(caps) <= MAX_MARKET_CAP
             THEN <<LogLine("cap", "OK", SetMin(caps), SetMax(caps), <<>>)>>
             ELSE <<LogLine("cap", "WARNING", SetMin(caps), SetMax(caps), <<>>)>>
        ELSE <<>>

\* Check 4 of validate_data.
IsExtremeMover(stock) == Abs(stock.change_pct) > MAX_WEEKLY_CHANGE * 100

MoverLines(stocks) ==
    LET extreme_movers == SelectSeq(stocks, IsExtremeMover)
    IN  IF extreme_movers # <<>>
        THEN [i \in 1..Len(extreme_movers) |->
                LogLine("mover", "flagged", extreme_movers[i].change_pct, 0,
                        <<extreme_movers[i].ticker>>)]
        ELSE <<LogLine("mover", "none", 0, 0, <<>>)>>

\* validate_data on the list of dicts: min() of an empty price list raises
\* ValueError, and then nothing is returned.
validate_data(stocks, failed) ==
    IF stocks = <<>>
    THEN [raised |-> TRUE, passed |-> FALSE, log |-> <<>>]
    ELSE [raised |-> FALSE,
          passed |-> CompletenessOk(Len(stocks)) /\ PricesOk(stocks),
          log |-> CompletenessLines(Len(stocks), failed) \o PriceLines(stocks)
                  \o CapLines(stocks) \o MoverLines(stocks)]

\* The dicts a list of references points at.
Deref(lst, h) == [i \in 1..Len(lst) |-> h[lst[i]]]

\* --------------------------------------------------------------------- state
VARIABLES
    prog,               \* which script runs: "weekly" (build.py) or "top25"
    pc,                 \* where main (or the direct call) stands
    run,                \* the number of this run; also its build_date
    companies,          \* the curated list's tickers
    previous_prices,    \* main's previous_prices
    quotes,             \* the quotes fetched
    failed_tickers,     \* build_top25's failed_tickers
    missing_anchors,    \* what validate_anchor_companies returned
    heap,               \* the stock dicts, by address
    enriched,           \* references, in the order of the list `enriched`
    gainers,            \* references
    losers,             \* references
    current_prices,     \* ticker -> price, to be saved
    pe_highest,         \* build.py: references
    pe_lowest,          \* build.py: references
    pe_high,            \* build_top25.py: a reference, 0 for None
    pe_low,             \* build_top25.py: a reference, 0 for None
    spotlight_gainer,   \* a reference, 0 for None
    spotlight_loser,    \* a reference, 0 for None
    sparklines,         \* the tickers fetch_historical was called for
    passed,             \* validate_data's verdict
    validation_log,     \* validate_data's log
    raised,             \* an exception left the call or the run
    price_history_file, \* data/price_history.json
    output              \* the output directory: its files, the build that wrote them
                        \* and the stocks they show

vars == <<prog, pc, run, companies, previous_prices, quotes, failed_tickers,
          missing_anchors, heap, enriched, gainers, losers, current_prices,
          pe_highest, pe_lowest, pe_high, pe_low, spotlight_gainer, spotlight_loser,
          sparklines, passed, validation_log, raised, price_history_file, output>>

\* The locals of main, before main has set them.
locals == <<previous_prices, quotes, failed_tickers, missing_anchors, heap, enriched,
            gainers, losers, current_prices, pe_highest, pe_lowest, pe_high, pe_low,
            spotlight_gainer, spotlight_loser, sparklines, passed, validation_log, raised>>

Programs == {"weekly", "top25"}

\* The lengths of the curated list that runs are followed for: the anchor
\* companies alone (build.py), the 25 of the Top-25 list, and the longest list.
CompanyCounts(p) ==
    IF p = "weekly" THEN {Cardinality(ANCHOR_COMPANIES), MaxStocks}
    ELSE {EXPECTED_TICKERS, MaxStocks}

\* By how much the prices of run r differ from the usual ones: no two runs see
\* the same price for a ticker.
PriceBump(r) == 5 * (r - 1)

NoOutput == [files |-> {}, build |-> 0, stocks |-> <<>>]

\* What the rendered pages show of a list of stocks: ticker -> price.
Rendered(lst, h) ==
    [t \in {h[lst[i]].ticker : i \in 1..Len(lst)} |->
        h[lst[CHOOSE i \in 1..Len(lst) : h[lst[i]].ticker = t]].price]

Init ==
    /\ prog \in Programs
    /\ pc = "start"
    /\ run = 1
    /\ companies \in {[i \in 1..n |-> i] : n \in CompanyCounts(prog)}
    /\ previous_prices = <<>> /\ quotes = <<>> /\ failed_tickers = <<>>
    /\ missing_anchors = {}
    /\ heap = <<>> /\ enriched = <<>> /\ gainers = <<>> /\ losers = <<>>
    /\ current_prices = <<>> /\ pe_highest = <<>> /\ pe_lowest = <<>>
    /\ pe_high = 0 /\ pe_low = 0 /\ spotlight_gainer = 0 /\ spotlight_loser = 0
    /\ sparklines = {} /\ passed = FALSE /\ validation_log = <<>> /\ raised = FALSE
    /\ price_history_file = NoFile
    /\ output = NoOutput

\* ------------------------------------------------------------ main, build.py
\* previous_prices = load_price_history()
LoadPriceHistory ==
    /\ prog = "weekly" /\ pc = "start"
    /\ previous_prices' = load_price_history(price_history_file)
    /\ pc' = "fetch"
    /\ UNCHANGED <<prog, run, companies, quotes, failed_tickers, missing_anchors, heap,
                   enriched, gainers, losers, current_prices, pe_highest, pe_lowest,
                   pe_high, pe_low, spotlight_gainer, spotlight_loser, sparklines,
                   passed, validation_log, raised, price_history_file, output>>

\* quotes = fetch_quotes(tickers)
FetchQuotes ==
    /\ prog = "weekly" /\ pc = "fetch"
    /\ \E rows \in RunAnswers(Len(companies), PriceBump(run)) :
          quotes' = fetch_quotes(companies, rows)
    /\ pc' = "anchors"
    /\ UNCHANGED <<prog, run, companies, previous_prices, failed_tickers, missing_anchors,
                   heap, enriched, gainers, losers, current_prices, pe_highest, pe_lowest,
                   pe_high, pe_low, spotlight_gainer, spotlight_loser, sparklines,
                   passed, validation_log, raised, price_history_file, output>>

\* missing_anchors = validate_anchor_companies(quotes)
ValidateAnchorCompanies ==
    /\ prog = "weekly" /\ pc = "anchors"
    /\ missing_anchors' = validate_anchor_companies(quotes)
    /\ pc' = "threshold"
    /\ UNCHANGED <<prog, run, companies, previous_prices, quotes, failed_tickers, heap,
                   enriched, gainers, losers, current_prices, pe_highest, pe_lowest,
                   pe_high, pe_low, spotlight_gainer, spotlight_loser, sparklines,
                   passed, validation_log, raised, price_history_file, output>>

\* An abort that first saves the prices of the quotes it did get.
TooFewQuotesSaved ==
    /\ prog = "weekly" /\ pc = "threshold"
    /\ Len(quotes) < MIN_QUOTES
    /\ price_history_file' =
          save_price_history(build_rankings(companies, quotes, previous_prices).current_prices,
                             run)
    /\ pc' = "aborted"
    /\ UNCHANGED <<prog, run, companies, locals, output>>

\* if len(quotes) < 10: return
TooFewQuotes ==
    /\ prog = "weekly" /\ pc = "threshold"
    /\ Len(quotes) < MIN_QUOTES
    /\ pc' = "aborted"
    /\ UNCHANGED <<prog, run, companies, locals, price_history_file, output>>

\* What the call of build_rankings leaves in the caller's variables.
DoBuildRankings(next) ==
    /\ LET r == build_rankings(companies, quotes, previous_prices)
       IN  /\ heap' = r.heap
           /\ enriched' = r.enriched
           /\ gainers' = r.gainers
           /\ losers' = r.losers
           /\ current_prices' = r.current_prices
    /\ pc' = next
    /\ UNCHANGED <<prog, run, companies, previous_prices, quotes, failed_tickers,
                   missing_anchors, pe_highest, pe_lowest, pe_high, pe_low,
                   spotlight_gainer, spotlight_loser, sparklines, passed, validation_log,
                   raised, price_history_file, output>>

\* The ranking step without the check of the quote count before it.
BuildRankingsUnchecked ==
    /\ prog = "weekly" /\ pc = "threshold"
    /\ DoBuildRankings("pe")

\* gainers, losers, enriched, current_prices = build_rankings(...)
BuildRankings ==
    /\ prog = "weekly" /\ pc = "threshold"
    /\ Len(quotes) >= MIN_QUOTES
    /\ DoBuildRankings("pe")

DoComputePeExtremes(next) ==
    /\ LET r == compute_pe_extremes(enriched, heap)
       IN  pe_highest' = r.highest /\ pe_lowest' = r.lowest
    /\ pc' = next
    /\ UNCHANGED <<prog, run, companies, previous_prices, quotes, failed_tickers,
                   missing_anchors, heap, enriched, gainers, losers, current_prices,
                   pe_high, pe_low, spotlight_gainer, spotlight_loser, sparklines,
                   passed, validation_log, raised, price_history_file, output>>

\* pe_highest, pe_lowest = compute_pe_extremes(enriched)
ComputePeExtremes ==
    /\ prog = "weekly" /\ pc = "pe"
    /\ DoComputePeExtremes("spotlight")

\* The year_change loop, the two spotlights and the two prints of them: a print
\* subscripts its spotlight, which raises TypeError on None.
Spotlight ==
    /\ prog = "weekly" /\ pc = "spotlight"
    /\ heap' = AddYearChange(heap, gainers \o losers)
    /\ spotlight_gainer' = IF gainers # <<>> THEN gainers[1] ELSE 0
    /\ spotlight_loser' = IF losers # <<>> THEN losers[1] ELSE 0
    /\ raised' = (gainers = <<>> \/ losers = <<>>)
    /\ pc' = IF gainers = <<>> \/ losers = <<>> THEN "crashed" ELSE "sparklines"
    /\ UNCHANGED <<prog, run, companies, previous_prices, quotes, failed_tickers,
                   missing_anchors, enriched, gainers, losers, current_prices,
                   pe_highest, pe_lowest, pe_high, pe_low, sparklines, passed,
                   validation_log, price_history_file, output>>

\* The tickers the two fetch_historical calls of main ask for.
SpotlightTickers ==
    {heap[a].ticker : a \in {spotlight_gainer, spotlight_loser} \ {0}}

\* gainer_sparkline / loser_sparkline = fetch_historical(...)
FetchSparklines ==
    /\ prog = "weekly" /\ pc = "sparklines"
    /\ sparklines' = SpotlightTickers
    /\ pc' = "save"
    /\ UNCHANGED <<prog, run, companies, previous_prices, quotes, failed_tickers,
                   missing_anchors, heap, enriched, gainers, losers, current_prices,
                   pe_highest, pe_lowest, pe_high, pe_low, spotlight_gainer,
                   spotlight_loser, passed, validation_log, raised, price_history_file,
                   output>>

\* A save that keeps the entries of the previous snapshot this run has no
\* price for.
SavePriceHistoryMerged ==
    /\ prog = "weekly" /\ pc = "save"
    /\ price_history_file' =
          save_price_history(
             [t \in DOMAIN previous_prices \cup DOMAIN current_prices |->
                 IF t \in DOMAIN current_prices THEN current_prices[t]
                 ELSE previous_prices[t]], run)
    /\ pc' = "render"
    /\ UNCHANGED <<prog, run, companies, locals, output>>

\* save_price_history(current_prices, build_date)
SavePriceHistory ==
    /\ prog = "weekly" /\ pc = "save"
    /\ price_history_file' = save_price_history(current_prices, run)
    /\ pc' = "render"
    /\ UNCHANGED <<prog, run, companies, locals, output>>

\* render_site of build.py: the files it writes.
render_site(build_date) ==
    [files |-> {"index.html", "rankings.html"}, build |-> build_date,
     stocks |-> Rendered(gainers \o losers, heap)]

\* render_site(...)
RenderSite ==
    /\ prog = "weekly" /\ pc = "render"
    /\ output' = render_site(run)
    /\ pc' = "done"
    /\ UNCHANGED <<prog, run, companies, locals, price_history_file>>

\* The next scheduled run of the same script: a new process, the files kept.
NextRun ==
    /\ pc \in {"done", "aborted", "crashed"}
    /\ run < MaxRuns
    /\ run' = run + 1
    /\ pc' = "start"
    /\ previous_prices' = <<>> /\ quotes' = <<>> /\ failed_tickers' = <<>>
    /\ missing_anchors' = {}
    /\ heap' = <<>> /\ enriched' = <<>> /\ gainers' = <<>> /\ losers' = <<>>
    /\ current_prices' = <<>> /\ pe_highest' = <<>> /\ pe_lowest' = <<>>
    /\ pe_high' = 0 /\ pe_low' = 0 /\ spotlight_gainer' = 0 /\ spotlight_loser' = 0
    /\ sparklines' = {} /\ passed' = FALSE /\ validation_log' = <<>> /\ raised' = FALSE
    /\ UNCHANGED <<prog, companies, price_history_file, output>>

\* ------------------------------------------------------ main, build_top25.py
\* quotes, failed_tickers = fetch_quotes(tickers)
FetchQuotesTop25 ==
    /\ prog = "top25" /\ pc = "start"
    /\ \E rows \in RunAnswers(Len(companies), PriceBump(run)) :
          LET r == fetch_quotes_top25(companies, rows)
          IN  quotes' = r.quotes /\ failed_tickers' = r.failed
    /\ pc' = "threshold"
    /\ UNCHANGED <<prog, run, companies, previous_prices, missing_anchors, heap, enriched,
                   gainers, losers, current_prices, pe_highest, pe_lowest, pe_high,
                   pe_low, spotlight_gainer, spotlight_loser, sparklines, passed,
                   validation_log, raised, price_history_file, output>>

\* if len(quotes) < 20: return
TooFewQuotesTop25 ==
    /\ prog = "top25" /\ pc = "threshold"
    /\ Len(quotes) < MIN_QUOTES_TOP25
    /\ pc' = "aborted"
    /\ UNCHANGED <<prog, run, companies, locals, price_history_file, output>>

DoBuildEnrichedData(next) ==
    /\ LET r == build_enriched_data(companies, quotes)
       IN  heap' = r.heap /\ enriched' = r.enriched
    /\ pc' = next
    /\ UNCHANGED <<prog, run, companies, previous_prices, quotes, failed_tickers,
                   missing_anchors, gainers, losers, current_prices, pe_highest,
                   pe_lowest, pe_high, pe_low, spotlight_gainer, spotlight_loser,
                   sparklines, passed, validation_log, raised, price_history_file,
                   output>>

\* enriched = build_enriched_data(companies, quotes)
BuildEnrichedData ==
    /\ prog = "top25" /\ pc = "threshold"
    /\ Len(quotes) >= MIN_QUOTES_TOP25
    /\ DoBuildEnrichedData("spotlight")

DoFindSpotlightStocks(next) ==
    /\ LET r == find_spotlight_stocks(enriched, heap)
       IN  spotlight_gainer' = r.gainer /\ spotlight_loser' = r.loser
    /\ pc' = next
    /\ UNCHANGED <<prog, run, companies, previous_prices, quotes, failed_tickers,
                   missing_anchors, heap, enriched, gainers, losers, current_prices,
                   pe_highest, pe_lowest, pe_high, pe_low, sparklines, passed,
                   validation_log, raised, price_history_file, output>>

\* gainer, loser = find_spotlight_stocks(enriched)
FindSpotlightStocks ==
    /\ prog = "top25" /\ pc = "spotlight"
    /\ DoFindSpotlightStocks("pe")

DoComputePeExtremesTop25(next) ==
    /\ LET r == compute_pe_extremes_top25(enriched, heap)
       IN  pe_high' = r.highest /\ pe_low' = r.lowest
    /\ pc' = next
    /\ UNCHANGED <<prog, run, companies, previous_prices, quotes, failed_tickers,
                   missing_anchors, heap, enriched, gainers, losers, current_prices,
                   pe_highest, pe_lowest, spotlight_gainer, spotlight_loser, sparklines,
                   passed, validation_log, raised, price_history_file, output>>

\* pe_high, pe_low = compute_pe_extremes(enriched)
ComputePeExtremesTop25 ==
    /\ prog = "top25" /\ pc = "pe"
    /\ DoComputePeExtremesTop25("validate")

DoValidateData(next, onRaise) ==
    /\ LET v == validate_data(Deref(enriched, heap), failed_tickers)
       IN  /\ raised' = v.raised
           /\ passed' = v.passed
           /\ validation_log' = v.log
           /\ pc' = IF v.raised THEN onRaise ELSE next
    /\ UNCHANGED <<prog, run, companies, previous_prices, quotes, failed_tickers,
                   missing_anchors, heap, enriched, gainers, losers, current_prices,
                   pe_highest, pe_lowest, pe_high, pe_low, spotlight_gainer,
                   spotlight_loser, sparklines, price_history_file, output>>

\* passed, validation_log = validate_data(enriched, failed_tickers)
ValidateData ==
    /\ prog = "top25" /\ pc = "validate"
    /\ DoValidateData("validated", "crashed")

\* if not passed: return
ValidationFailed ==
    /\ prog = "top25" /\ pc = "validated"
    /\ ~passed
    /\ pc' = "aborted"
    /\ UNCHANGED <<prog, run, companies, locals, price_history_file, output>>

\* The sparkline step taken whatever validate_data returned.
FetchSparklinesUnvalidated ==
    /\ prog = "top25" /\ pc = "validated"
    /\ sparklines' = SpotlightTickers
    /\ pc' = "render"
    /\ UNCHANGED <<prog, run, companies, previous_prices, quotes, failed_tickers,
                   missing_anchors, heap, enriched, gainers, losers, current_prices,
                   pe_highest, pe_lowest, pe_high, pe_low, spotlight_gainer,
                   spotlight_loser, passed, validation_log, raised, price_history_file,
                   output>>

\* gainer_sparkline / loser_sparkline = fetch_historical(...)
FetchSparklinesTop25 ==
    /\ prog = "top25" /\ pc = "validated"
    /\ passed
    /\ sparklines' = SpotlightTickers
    /\ pc' = "render"
    /\ UNCHANGED <<prog, run, companies, previous_prices, quotes, failed_tickers,
                   missing_anchors, heap, enriched, gainers, losers, current_prices,
                   pe_highest, pe_lowest, pe_high, pe_low, spotlight_gainer,
                   spotlight_loser, passed, validation_log, raised, price_history_file,
                   output>>

\* render_site of build_top25.py: the files it writes.
render_site_top25(build_date) ==
    [files |-> {"index.html", "top25.json", "verification.txt"}, build |-> build_date,
     stocks |-> Rendered(enriched, heap)]

\* The summary prints (they subscript gainer and loser) and render_site(...)
RenderSiteTop25 ==
    /\ prog = "top25" /\ pc = "render"
    /\ raised' = (spotlight_gainer = 0 \/ spotlight_loser = 0)
    /\ output' = IF spotlight_gainer = 0 \/ spotlight_loser = 0 THEN output
                 ELSE render_site_top25(run)
    /\ pc' = IF spotlight_gainer = 0 \/ spotlight_loser = 0 THEN "crashed" ELSE "done"
    /\ UNCHANGED <<prog, run, companies, previous_prices, quotes, failed_tickers,
                   missing_anchors, heap, enriched, gainers, losers, current_prices,
                   pe_highest, pe_lowest, pe_high, pe_low, spotlight_gainer,
                   spotlight_loser, sparklines, passed, validation_log,
                   price_history_file>>

Next ==
    \/ LoadPriceHistory
    \/ FetchQuotes
    \/ ValidateAnchorCompanies
    \/ TooFewQuotes
    \/ BuildRankings
    \/ ComputePeExtremes
    \/ Spotlight
    \/ FetchSparklines
    \/ SavePriceHistory
    \/ RenderSite
    \/ FetchQuotesTop25
    \/ TooFewQuotesTop25
    \/ BuildEnrichedData
    \/ FindSpotlightStocks
    \/ ComputePeExtremesTop25
    \/ ValidateData
    \/ ValidationFailed
    \/ FetchSparklinesTop25
    \/ RenderSiteTop25
    \/ NextRun

\* Runs of the two scripts, one after the other.
Spec == Init /\ [][Next]_vars

\* ------------------------------------------------- the functions, called alone
\* A quote list handed over directly: one quote per answer that does not raise,
\* with whatever price it holds.
DirectQuotes(rows) ==
    LET idx == SelectSeq([i \in 1..Len(rows) |-> i], LAMBDA i : ~rows[i].raises)
    IN  [j \in 1..Len(idx) |-> Quote(IF rows[idx[j]].listed THEN idx[j] ELSE 0, rows[idx[j]])]

InitCalls ==
    /\ prog \in Programs
    /\ pc = "call"
    /\ run = 1
    /\ \E n \in 0..MaxStocks : \E rows \in Answers(n, 0, DeviantKinds) :
          /\ companies = [i \in 1..n |-> i]
          /\ quotes = DirectQuotes(rows)
          /\ failed_tickers = IF prog = "top25" THEN fetch_quotes_top25(companies, rows).failed
                              ELSE <<>>
    /\ previous_prices \in IF prog = "weekly" THEN PreviousPriceChoices ELSE {<<>>}
    /\ missing_anchors = {}
    /\ heap = <<>> /\ enriched = <<>> /\ gainers = <<>> /\ losers = <<>>
    /\ current_prices = <<>> /\ pe_highest = <<>> /\ pe_lowest = <<>>
    /\ pe_high = 0 /\ pe_low = 0 /\ spotlight_gainer = 0 /\ spotlight_loser = 0
    /\ sparklines = {} /\ passed = FALSE /\ validation_log = <<>> /\ raised = FALSE
    /\ price_history_file = NoFile
    /\ output = NoOutput

CallBuildRankings ==
    /\ prog = "weekly" /\ pc = "call"
    /\ DoBuildRankings("call_pe")

CallComputePeExtremes ==
    /\ prog = "weekly" /\ pc = "call_pe"
    /\ DoComputePeExtremes("returned")

CallBuildEnrichedData ==
    /\ prog = "top25" /\ pc = "call"
    /\ DoBuildEnrichedData("call_spotlight")

CallFindSpotlightStocks ==
    /\ prog = "top25" /\ pc = "call_spotlight"
    /\ DoFindSpotlightStocks("call_pe")

CallComputePeExtremesTop25 ==
    /\ prog = "top25" /\ pc = "call_pe"
    /\ DoComputePeExtremesTop25("call_validate")

CallValidateData ==
    /\ prog = "top25" /\ pc = "call_validate"
    /\ DoValidateData("returned", "raised")

NextCalls ==
    \/ CallBuildRankings
    \/ CallComputePeExtremes
    \/ CallBuildEnrichedData
    \/ CallFindSpotlightStocks
    \/ CallComputePeExtremesTop25
    \/ CallValidateData

\* Each function called on its own, on every quote list of the bounded family.
SpecCalls == InitCalls /\ [][NextCalls]_vars

\* Both at once: the scripts run, and their functions are called directly.
InitAll == Init \/ InitCalls

NextAll == Next \/ NextCalls

SpecAll == InitAll /\ [][NextAll]_vars

\* ==================================================================== claims
\* build_rankings has returned (called alone).
RankingsReturned == prog = "weekly" /\ pc \in {"call_pe", "returned"}

\* validate_data has returned (called alone).
ValidateReturned == prog = "top25" /\ pc = "returned"

RanksAreDense(lst) == \A i \in 1..Len(lst) : heap[lst[i]].rank = i

\* C1: after build_rankings, the rank fields read from the gainers list are
\* 1..len(gainers) in list order, and those read from the losers list are
\* 1..len(losers) in list order.
C1_RanksDenseInBothLists ==
    RankingsReturned => RanksAreDense(gainers) /\ RanksAreDense(losers)

\* C2: validate_data returns passed = true exactly when there are 25 entries
\* and every price is > 0, whatever the market caps and the changes are; a
\* market cap outside the band adds a WARNING line to the log.
C2_PassedIffCompleteAndPriced ==
    ValidateReturned =>
        /\ passed <=> (Len(enriched) = 25 /\ \A a \in DOMAIN heap : heap[a].price > 0)
        /\ (\E a \in DOMAIN heap :
                /\ heap[a].market_cap \notin {None, 0}
                /\ (heap[a].market_cap < 10 \/ heap[a].market_cap > 5000))
           => \E i \in 1..Len(validation_log) :
                 validation_log[i].check = "cap" /\ validation_log[i].status = "WARNING"

\* C2 happens: 25 entries, one of them with a market cap of $600B and an
\* extreme change nowhere, and validate_data returned passed = true.
C2_Witness ==
    /\ ValidateReturned
    /\ passed
    /\ \E a \in DOMAIN heap : heap[a].market_cap > 5000

\* C3: whatever the input, validate_data returns a log to which each of the
\* four checks has contributed a line, in the order completeness, price
\* sanity, market-cap bounds, extreme movers.
C3_EveryCheckLogsALine ==
    (prog = "top25" /\ pc \in {"returned", "raised"}) =>
        /\ ~raised
        /\ \E i1, i2, i3, i4 \in 1..Len(validation_log) :
              /\ i1 < i2 /\ i2 < i3 /\ i3 < i4
              /\ validation_log[i1].check = "tickers"
              /\ validation_log[i2].check = "price"
              /\ validation_log[i3].check = "cap"
              /\ validation_log[i4].check = "mover"

\* The curated tickers without an enriched entry.
MissingTickers == Range(companies) \ {heap[a].ticker : a \in DOMAIN heap}

\* C4: when the validator of a Top-25 run receives fewer than 25 entries,
\* passed is false, the first log line reports <n>/25 FAILED, and a log line
\* names the curated tickers missing from the enriched set, however the fetch
\* omitted them.
C4_MissingTickersAreNamed ==
    (prog = "top25" /\ pc = "validated" /\ Len(enriched) < 25) =>
        /\ ~passed
        /\ validation_log[1].check = "tickers"
        /\ validation_log[1].status = "FAILED"
        /\ validation_log[1].lo = Len(enriched)
        /\ MissingTickers # {} =>
              \E i \in 1..Len(validation_log) :
                 /\ validation_log[i].check = "missing"
                 /\ Range(validation_log[i].tickers) = MissingTickers

\* C5: a Top-25 run reaches the publish step, and fetches sparklines, only
\* after at least 20 quotes were fetched and validate_data returned passed =
\* true; a run in which either fails ends with no output file written by it.
C5_PublishOnlyWhenValidated ==
    prog = "top25" =>
        /\ (pc \in {"render", "done"} \/ output.build = run \/ sparklines # {})
           => (Len(quotes) >= 20 /\ passed)
        /\ pc \in {"aborted", "crashed"} => (output.build # run /\ sparklines = {})
        /\ output.build = run
           => output.files = {"index.html", "top25.json", "verification.txt"}

\* C5 happens: the second Top-25 run fetched at least 20 quotes, failed
\* validation and ended, and the output is still that of the first run.
C5_Witness ==
    /\ prog = "top25" /\ run = 2 /\ pc = "aborted"
    /\ Len(quotes) >= 20 /\ ~passed
    /\ output.build = 1

\* main of build.py is past its check of the quote count.
PastQuoteCheck == pc \notin {"start", "fetch", "anchors", "threshold"}

\* C6: a weekly run with fewer than 10 quotes aborts and leaves the price
\* history file and the published output as they were; a run with 10 or more
\* quotes goes on to save and publish, whatever anchors are missing.
C6_AbortLeavesFilesUntouched ==
    (prog = "weekly" /\ PastQuoteCheck) =>
        /\ Len(quotes) < 10 =>
              /\ pc = "aborted"
              /\ price_history_file.saved_at # run
              /\ output.build # run
        /\ Len(quotes) >= 10 =>
              /\ pc \in {"pe", "spotlight", "sparklines", "save", "render", "done"}
              /\ pc = "done" => (price_history_file.saved_at = run /\ output.build = run)

\* C6 happens: the first run aborted and wrote nothing, and the second run,
\* with anchor companies missing, has saved its prices and is about to publish.
C6_Witness ==
    /\ prog = "weekly" /\ run = 2 /\ pc = "render"
    /\ missing_anchors # {}
    /\ output = NoOutput
    /\ price_history_file.saved_at = 2

\* C7: at the end of a weekly run that did not abort, the price history file
\* holds exactly this run's enriched tickers, each with this run's price, and
\* nothing of the previous snapshot; the next run loads exactly the file's
\* mapping.
C7_SnapshotReplaced ==
    prog = "weekly" =>
        /\ pc = "done" =>
              /\ DOMAIN price_history_file.prices = {heap[a].ticker : a \in DOMAIN heap}
              /\ \A a \in DOMAIN heap :
                    price_history_file.prices[heap[a].ticker] = heap[a].price
              /\ \A i \in 1..Len(quotes) :
                    price_history_file.prices[quotes[i].symbol] = quotes[i].price
        /\ pc \in {"fetch", "anchors", "threshold", "aborted", "pe", "spotlight",
                   "sparklines", "save"} =>
              /\ price_history_file.saved_at < run
              /\ previous_prices = IF price_history_file.exists
                                   THEN price_history_file.prices ELSE <<>>

\* C7 happens: a later run has ended, and a ticker of the snapshot it loaded
\* is not in the snapshot it wrote.
C7_Witness ==
    /\ prog = "weekly" /\ run > 1 /\ pc = "done"
    /\ DOMAIN previous_prices \ DOMAIN price_history_file.prices # {}
    /\ \E t \in DOMAIN price_history_file.prices :
          t \in DOMAIN previous_prices /\ previous_prices[t] # price_history_file.prices[t]

\* The previous price build_rankings has for a stock, 0 when it has none.
PreviousOf(stock) ==
    IF stock.ticker \in DOMAIN previous_prices THEN previous_prices[stock.ticker] ELSE 0

\* C8: the change_pct of every enriched stock is round((current - previous) /
\* previous * 100, 2) when a previous price > 0 is known, else
\* round((current - yearLow) / yearLow * 100 / 52, 2) when yearLow > 0, else 0.
C8_ChangePctFormula ==
    RankingsReturned =>
        \A a \in DOMAIN heap :
            heap[a].change_pct =
                IF PreviousOf(heap[a]) > 0
                THEN RoundHalfEven((heap[a].price - PreviousOf(heap[a])) * 10000,
                                   PreviousOf(heap[a]))
                ELSE IF heap[a].year_low # None /\ heap[a].year_low > 0
                     THEN RoundHalfEven((heap[a].price - heap[a].year_low) * 10000,
                                        heap[a].year_low * 52)
                     ELSE 0

\* C8 happens: one call with a stock whose previous price is > 0, a stock
\* whose recorded previous price is 0 and a stock without a previous price.
C8_Witness ==
    /\ RankingsReturned
    /\ \E a, b, c \in DOMAIN heap :
          /\ PreviousOf(heap[a]) > 0 /\ heap[a].change_pct # 0
          /\ heap[b].ticker \in DOMAIN previous_prices /\ PreviousOf(heap[b]) = 0
          /\ heap[b].change_pct # 0
          /\ heap[c].ticker \notin DOMAIN previous_prices /\ heap[c].change_pct # 0

\* C9: gainers and losers hold min(25, N) stocks each, gainers in
\* non-increasing and losers in non-decreasing order of change_pct, and no
\* stock left out of a list would belong before one in it.
C9_TopAndBottom25 ==
    RankingsReturned =>
        /\ Len(gainers) = (IF Len(enriched) < 25 THEN Len(enriched) ELSE 25)
        /\ Len(losers) = Len(gainers)
        /\ Len(enriched) = Cardinality(DOMAIN heap)
        /\ Cardinality(Range(gainers)) = Len(gainers)
        /\ Cardinality(Range(losers)) = Len(losers)
        /\ \A i \in 1..(Len(gainers) - 1) :
              heap[gainers[i]].change_pct >= heap[gainers[i + 1]].change_pct
        /\ \A i \in 1..(Len(losers) - 1) :
              heap[losers[i]].change_pct <= heap[losers[i + 1]].change_pct
        /\ \A a \in DOMAIN heap \ Range(gainers) : \A b \in Range(gainers) :
              heap[a].change_pct <= heap[b].change_pct
        /\ \A a \in DOMAIN heap \ Range(losers) : \A b \in Range(losers) :
              heap[a].change_pct >= heap[b].change_pct

\* C9 happens: 26 stocks, so one is left out of each list, and the lists
\* hold stocks of different and of equal change_pct.
C9_Witness ==
    /\ RankingsReturned
    /\ Len(enriched) = 26 /\ Len(gainers) = 25 /\ Len(losers) = 25
    /\ heap[gainers[1]].change_pct > heap[gainers[25]].change_pct
    /\ heap[gainers[1]].change_pct = heap[gainers[2]].change_pct

\* The stocks with a P/E > 0.
Qualifying == {a \in DOMAIN heap : heap[a].pe # None /\ heap[a].pe > 0}

\* What C10 says, the two lists of build.py sharing a stock exactly when the
\* number of qualifying stocks is in least..5.
PeExtremesHold(least) ==
    LET q == Cardinality(Qualifying)
        top == Range(pe_highest)
        bottom == Range(pe_lowest)
    IN  /\ (prog = "weekly" /\ pc = "returned") =>
              /\ top \subseteq Qualifying /\ bottom \subseteq Qualifying
              /\ Len(pe_highest) = (IF q < 3 THEN q ELSE 3)
              /\ Len(pe_lowest) = (IF q < 3 THEN q ELSE 3)
              /\ Cardinality(top) = Len(pe_highest)
              /\ Cardinality(bottom) = Len(pe_lowest)
              /\ \A a \in Qualifying \ top : \A b \in top : heap[a].pe <= heap[b].pe
              /\ \A a \in Qualifying \ bottom : \A b \in bottom : heap[a].pe >= heap[b].pe
              /\ (top \cap bottom # {}) <=> (least <= q /\ q <= 5)
        /\ (prog = "top25" /\ pc \in {"call_validate", "returned", "raised"}) =>
              /\ (pe_high = 0) <=> (q = 0)
              /\ (pe_low = 0) <=> (q = 0)
              /\ q > 0 =>
                    /\ pe_high \in Qualifying /\ pe_low \in Qualifying
                    /\ \A a \in Qualifying : heap[a].pe <= heap[pe_high].pe
                    /\ \A a \in Qualifying : heap[a].pe >= heap[pe_low].pe

\* C10, as claimed: no stock returned by compute_pe_extremes has a missing or
\* non-positive P/E; build.py returns the min(3, q) largest and the min(3, q)
\* smallest, the two lists sharing a stock exactly when q <= 5; build_top25.py
\* returns a stock of maximum and one of minimum P/E, and None twice when q = 0.
C10_PeExtremesAsClaimed == PeExtremesHold(0)

\* C10, amended: the same, the two lists of build.py sharing a stock exactly
\* when 1 <= q <= 5 (with q = 0 both lists are empty and share nothing).
C10_PeExtremes == PeExtremesHold(1)

\* C10 happens: build.py's compute_pe_extremes returned on stocks of which
\* two qualify and one does not.
C10_Witness ==
    /\ prog = "weekly" /\ pc = "returned"
    /\ Cardinality(Qualifying) = 2
    /\ Cardinality(DOMAIN heap) = 3
    /\ Len(pe_highest) = 2 /\ Range(pe_highest) = Range(pe_lowest)

\* The merge of company list and quotes has returned (build_rankings in
\* build.py, build_enriched_data in build_top25.py).
EnrichReturned ==
    \/ prog = "weekly" /\ pc \in {"call_pe", "returned"}
    \/ prog = "top25" /\ pc \in {"call_spotlight", "call_pe", "call_validate",
                                 "returned", "raised"}

EnrichedTickers == {heap[a].ticker : a \in DOMAIN heap}

QuoteSymbols == {quotes[i].symbol : i \in 1..Len(quotes)}

\* C11: the tickers of the enriched output are exactly the curated tickers
\* that have a quote; a quote of another symbol and a curated ticker without
\* a quote produce no record, and every ticker has one record.
C11_EnrichedIsIntersection ==
    EnrichReturned =>
        /\ EnrichedTickers = Range(companies) \cap QuoteSymbols
        /\ Range(enriched) = DOMAIN heap
        /\ Len(enriched) = Cardinality(EnrichedTickers)
        /\ \A a, b \in DOMAIN heap : heap[a].ticker = heap[b].ticker => a = b

\* C11 happens: the merge returned records for some tickers, given a quote
\* of a symbol that is not curated and a curated ticker that has no quote.
C11_Witness ==
    /\ EnrichReturned
    /\ QuoteSymbols \ Range(companies) # {}
    /\ Range(companies) \ QuoteSymbols # {}
    /\ Len(enriched) > 1

\* The spotlight stocks have been picked: by main of build.py (lines 413-418)
\* or by find_spotlight_stocks of build_top25.py.
SpotlightsPicked ==
    \/ prog = "weekly" /\ pc \in {"sparklines", "save", "render", "done", "crashed"}
    \/ prog = "top25" /\ pc \in {"pe", "validate", "validated", "render", "done",
                                 "aborted", "crashed", "call_pe", "call_validate",
                                 "returned", "raised"}

CapOrZero(a) == IF heap[a].market_cap \in {None, 0} THEN 0 ELSE heap[a].market_cap

\* C13: the list build_enriched_data returns is in non-increasing order of
\* market cap, None and 0 counting as 0 and so coming after every positive
\* market cap, and the stock at position i (from 1) has rank i.
C13_SortedByCapAndRanked ==
    (prog = "top25" /\ EnrichReturned) =>
        /\ \A i \in 1..(Len(enriched) - 1) :
              CapOrZero(enriched[i]) >= CapOrZero(enriched[i + 1])
        /\ \A i, j \in 1..Len(enriched) :
              (CapOrZero(enriched[i]) > 0 /\ heap[enriched[j]].market_cap \in {None, 0})
                 => i < j
        /\ \A i \in 1..Len(enriched) : heap[enriched[i]].rank = i
        /\ {heap[a].rank : a \in DOMAIN heap} = 1..Len(enriched)

\* C13 happens: build_enriched_data returned several stocks in another order
\* than the quotes came in, one without a market cap among them.
C13_Witness ==
    /\ prog = "top25" /\ EnrichReturned
    /\ Len(enriched) > 3
    /\ \E i \in 1..Len(enriched) : enriched[i] # i
    /\ heap[enriched[Len(enriched)]].market_cap = None
    /\ CapOrZero(enriched[1]) > CapOrZero(enriched[2])

\* C14: a Top-25 run publishes only with exactly 25 enriched stocks, all of
\* price > 0; a run with 20 to 24 quotes gets past the check of the quote
\* count and is then aborted by the completeness check of validate_data.
C14_PublishNeedsAll25 ==
    prog = "top25" =>
        /\ (output.build = run \/ pc \in {"render", "done"}) =>
              /\ Len(enriched) = 25
              /\ \A a \in DOMAIN heap : heap[a].price > 0
        /\ (Len(quotes) \in 20..24 /\ pc \notin {"start", "threshold"}) =>
              /\ pc \in {"spotlight", "pe", "validate", "validated", "aborted"}
              /\ output.build # run
              /\ pc \in {"validated", "aborted"} =>
                    /\ ~passed
                    /\ validation_log[1].check = "tickers"
                    /\ validation_log[1].status = "FAILED"

\* C14 happens: a run with 24 quotes, all of price > 0, got past the check
\* of the quote count and was aborted after validation.
C14_Witness ==
    /\ prog = "top25" /\ pc = "aborted"
    /\ Len(quotes) = 24 /\ Len(enriched) = 24
    /\ \A a \in DOMAIN heap : heap[a].price > 0
    /\ validation_log # <<>> /\ ~passed

\* A weekly run has ranked its stocks and not yet published them: the output
\* directory is still the one the most recent earlier run that was not
\* aborted left, or empty when there is none.
RankedNotPublished ==
    prog = "weekly" /\ pc \in {"pe", "spotlight", "sparklines", "save", "render"}

====
